---- MODULE Spec2Model ----
(***************************************************************************)
(* A model of the cherry-pancake reconciliation service: the store         *)
(* directory normaliser and invoice key resolver (app/library/utils.py),   *)
(* the two report pipelines (app/main.py work_post, app/routes/costco.py   *)
(* process_costco_analysis), the sales validator (app/routes/sales.py)     *)
(* and the last-result slot of the sales endpoints (main.py).              *)
(*                                                                         *)
(* Python str values are TLA+ strings; TLC evaluates Len, \o and SubSeq on *)
(* them, so slicing, stripping and padding are computed character by       *)
(* character.  Amounts are integers.                                       *)
(***************************************************************************)
EXTENDS Integers, Sequences, FiniteSets, TLC

VARIABLES
    \* --- resolver harness (extract_key) ---
    kInvoice, kDir, kN, kRes, kPc,
    \* --- normaliser harness (get_store_names) ---
    gSrc, gDf, gRes, gPc,
    \* --- sales validator (process_sales_analysis) ---
    sFile,        \* the uploaded file: its kind and the rows read_excel yields
    sPc,          \* position in process_sales_analysis
    sDf,          \* df after dropna: the rows left, each with its index label
    sExpected,    \* expected
    sParsed,      \* sales as the block scan leaves it (line 64)
    sSales,       \* sales after the aggregation loop (line 79)
    sActual,      \* actual
    sValidation,  \* validation_results
    sResponse,    \* the response returned
    \* --- sales endpoints (main.py) ---
    lSlot,        \* last_sales_analysis, the module-level dict
    lInflight,    \* sales_post calls suspended in await process_sales_analysis
    lPosts,       \* sales POST requests received so far
    lDownload,    \* what the latest sales_download returned
    lLastOk,      \* history: the workbook of the latest sales POST that succeeded
    \* --- report pipelines (work_post, process_costco_analysis) ---
    pRoute,               \* "work" (app/main.py) or "costco" (routes/costco.py)
    pStore,               \* store_file: its kind and the table it decodes to
    pFiles,               \* files: the uploads, in order
    pPc,                  \* position in the handler
    pIdx,                 \* the upload the loop is at (from 1)
    pRows,                \* df of the upload at hand
    store_mapping,
    aggregated_data,
    detailed_dataframes,
    pResponse,            \* the response returned
    pParsedTotal,         \* history: the amounts of all rows parsed from processed files
    pSections             \* history: the section name each stored upload was given

keyVars == <<kInvoice, kDir, kN, kRes, kPc>>
dirVars == <<gSrc, gDf, gRes, gPc>>
salesVars == <<sFile, sPc, sDf, sExpected, sParsed, sSales, sActual, sValidation, sResponse>>
slotVars == <<lSlot, lInflight, lPosts, lDownload, lLastOk>>
pipeVars == <<pRoute, pStore, pFiles, pPc, pIdx, pRows, store_mapping, aggregated_data,
              detailed_dataframes, pResponse, pParsedTotal, pSections>>
vars == <<keyVars, dirVars, salesVars, slotVars, pipeVars>>

\* What a step of one component leaves alone: the other components.
KeyFrame == UNCHANGED <<dirVars, salesVars, slotVars, pipeVars>>
DirFrame == UNCHANGED <<keyVars, salesVars, slotVars, pipeVars>>
SalesFrame == UNCHANGED <<keyVars, dirVars, slotVars, pipeVars>>
SlotFrame == UNCHANGED <<keyVars, dirVars, salesVars, pipeVars>>
PipeFrame == UNCHANGED <<keyVars, dirVars, salesVars, slotVars>>

(***************************************************************************)
(* Python string primitives                                                *)
(***************************************************************************)
\* Python's None, where an argument may be None instead of a str.
None == "<None>"

Digits == {"0", "1", "2", "3", "4", "5", "6", "7", "8", "9"}

\* s[i-1:i] in Python terms: the i-th character as a one-character string,
\* "" beyond the ends.
Char(s, i) == IF i >= 1 /\ i <= Len(s) THEN SubSeq(s, i, i) ELSE ""

\* s[i-1:] : the suffix from the i-th character.
From(s, i) == IF i > Len(s) THEN "" ELSE SubSeq(s, i, Len(s))

\* s[:k] for k >= 0.
Take(s, k) == IF k <= 0 THEN "" ELSE IF k >= Len(s) THEN s ELSE SubSeq(s, 1, k)

\* s[:n] for a negative n: drop the last |n| characters.
SliceNeg(s, n) == Take(s, Len(s) + n)

\* str.isdigit(): non-empty and every character a digit.
isdigit(s) == s # "" /\ \A i \in 1..Len(s) : Char(s, i) \in Digits

\* str.lstrip(c) for a one-character set c.
RECURSIVE lstrip(_, _)
lstrip(s, c) == IF s # "" /\ Char(s, 1) = c THEN lstrip(From(s, 2), c) ELSE s

\* str.rstrip(c) for a one-character set c.
RECURSIVE rstrip(_, _)
rstrip(s, c) ==
    IF s # "" /\ Char(s, Len(s)) = c THEN rstrip(Take(s, Len(s) - 1), c) ELSE s

\* str.strip(): whitespace removed at both ends.
strip(s) == rstrip(lstrip(s, " "), " ")

\* str.zfill(w) of an unsigned string: pad on the left with "0" up to width w.
RECURSIVE zfill(_, _)
zfill(s, w) == IF Len(s) >= w THEN s ELSE zfill("0" \o s, w)

\* `not x` for a str-or-None argument.
Falsy(x) == x = None \/ x = ""

(***************************************************************************)
(* utils.extract_key                                                       *)
(***************************************************************************)
\* The length of the run of digits that starts at position i of s.
RECURSIVE DigitRunLen(_, _)
DigitRunLen(s, i) ==
    IF i <= Len(s) /\ Char(s, i) \in Digits THEN 1 + DigitRunLen(s, i + 1) ELSE 0

\* re.findall(r"\d+", s): the maximal digit runs of s from position i on, in order.
RECURSIVE findall_digits(_, _)
findall_digits(s, i) ==
    IF i > Len(s) THEN <<>>
    ELSE IF Char(s, i) \in Digits
         THEN LET k == DigitRunLen(s, i)
              IN  <<SubSeq(s, i, i + k - 1)>> \o findall_digits(s, i + k)
         ELSE findall_digits(s, i + 1)

\* Tiers 2 and 3 tried in the opposite order.
extract_key_RightFirst(invoice_num, store_names, n) ==
    LET z == "0000" IN
    IF Falsy(invoice_num) THEN z
    ELSE LET digits == findall_digits(SliceNeg(invoice_num, n), 1) IN
         IF digits = <<>> THEN z
         ELSE LET res  == zfill(lstrip(digits[1], "0"), 4)
                  lres == lstrip(res, "0")
                  rres == zfill(rstrip(res, "0"), 4)
              IN  IF res \notin DOMAIN store_names
                  THEN IF rres \in DOMAIN store_names THEN rres
                       ELSE IF lres \in DOMAIN store_names THEN lres
                       ELSE z
                  ELSE res

\* The third tier left out.
extract_key_NoTier3(invoice_num, store_names, n) ==
    LET z == "0000" IN
    IF Falsy(invoice_num) THEN z
    ELSE LET digits == findall_digits(SliceNeg(invoice_num, n), 1) IN
         IF digits = <<>> THEN z
         ELSE LET res  == zfill(lstrip(digits[1], "0"), 4)
                  lres == lstrip(res, "0")
              IN  IF res \notin DOMAIN store_names
                  THEN IF lres \in DOMAIN store_names THEN lres ELSE z
                  ELSE res

\* extract_key(invoice_num, store_names, n): store_names is a function whose
\* DOMAIN is the dict's key set.
extract_key(invoice_num, store_names, n) ==
    LET z == "0000" IN
    IF Falsy(invoice_num) THEN z
    ELSE LET res_str == SliceNeg(invoice_num, n)
             digits  == findall_digits(res_str, 1)
         IN
         IF digits = <<>> THEN z
         ELSE LET res  == zfill(lstrip(digits[1], "0"), 4)
                  lres == lstrip(res, "0")
                  rres == zfill(rstrip(res, "0"), 4)
              IN  IF res \notin DOMAIN store_names
                  THEN IF lres \in DOMAIN store_names THEN lres
                       ELSE IF rres \in DOMAIN store_names THEN rres
                       ELSE z
                  ELSE res

(***************************************************************************)
(* utils.get_store_names                                                   *)
(***************************************************************************)
UpperCase == "ABCDEFGHIJKLMNOPQRSTUVWXYZ"
LowerCase == "abcdefghijklmnopqrstuvwxyz"

\* The lower-case letter of each upper-case letter.
LowerOf ==
    [c \in {Char(UpperCase, i) : i \in 1..26} |->
        Char(LowerCase, CHOOSE i \in 1..26 : Char(UpperCase, i) = c)]

\* str.lower() of one character.
LowerCh(c) == IF c \in DOMAIN LowerOf THEN LowerOf[c] ELSE c

\* str.lower().
RECURSIVE lower(_)
lower(s) == IF s = "" THEN "" ELSE LowerCh(Char(s, 1)) \o lower(From(s, 2))

\* str.startswith(prefix).
startswith(s, prefix) == Take(s, Len(prefix)) = prefix /\ Len(s) >= Len(prefix)

\* A dict as a function; d[k] = v.
Put(d, k, v) == [x \in (DOMAIN d) \cup {k} |-> IF x = k THEN v ELSE d[x]]

\* The digit test left out: whatever is left after stripping is padded and kept.
key_formatter_NoDigitTest(cell) ==
    LET s == strip(cell) IN
    IF s = "" \/ lower(s) = "nan" THEN "-1"
    ELSE zfill(IF startswith(s, "#") THEN lstrip(s, "#") ELSE s, 4)

\* The padding left out: a code of digits is kept as it is written.
key_formatter_NoPad(cell) ==
    LET s == strip(cell) IN
    IF s = "" \/ lower(s) = "nan" THEN "-1"
    ELSE LET t == IF startswith(s, "#") THEN lstrip(s, "#") ELSE s
         IN  IF isdigit(t) THEN t ELSE "-1"

\* key_formatter(s): the cell is the already stringified value str(s).
key_formatter(cell) ==
    LET s == strip(cell) IN
    IF s = "" \/ lower(s) = "nan" THEN "-1"
    ELSE LET t == IF startswith(s, "#") THEN lstrip(s, "#") ELSE s
         IN  IF isdigit(t) THEN zfill(t, 4) ELSE "-1"

\* The two entries added to every directory.
missed == ("1997" :> "C991997") @@ ("0000" :> "Unknown")

\* for x, y in missed.items(): store_names[x] = y
add_missed(store_names) ==
    Put(Put(store_names, "1997", missed["1997"]), "0000", missed["0000"])

\* for x, y in zip(long_col, short_col): rows are taken in order from the
\* i-th on; long and short are the column positions.
RECURSIVE fill_store_names(_, _, _, _, _)
fill_store_names(rows, i, long, short, store_names) ==
    IF i > Len(rows) THEN store_names
    ELSE LET formatted_key == key_formatter(rows[i][short])
         IN  fill_store_names(rows, i + 1, long, short,
                 IF formatted_key # "-1"
                 THEN Put(store_names, formatted_key, strip(rows[i][long]))
                 ELSE store_names)

\* The sentinels inserted before the rows instead of after them.
get_store_names_SentinelsFirst(src, df) ==
    IF src = "csv_error" THEN missed
    ELSE IF src = "none" THEN add_missed(<<>>)
    ELSE IF df.ncols >= 3 THEN fill_store_names(df.rows, 1, 1, 3, add_missed(<<>>))
    ELSE IF df.ncols >= 2 THEN fill_store_names(df.rows, 1, 1, 2, add_missed(<<>>))
    ELSE missed

\* get_store_names(csv_path, df).  src tells which arguments are given:
\* "df" (df is not None), "csv" (df is None, csv_path is read into df),
\* "csv_error" (pd.read_csv raises), "none" (both are None).
get_store_names(src, df) ==
    IF src = "csv_error" THEN missed
    ELSE IF src = "none" THEN add_missed(<<>>)
    ELSE IF df.ncols >= 3 THEN add_missed(fill_store_names(df.rows, 1, 1, 3, <<>>))
    ELSE IF df.ncols >= 2 THEN add_missed(fill_store_names(df.rows, 1, 1, 2, <<>>))
    ELSE missed

(***************************************************************************)
(* routes/sales.process_sales_analysis                                     *)
(*                                                                         *)
(* Amounts are integers counting units of 0.0001, so that rounding to 3    *)
(* decimals is a computation.                                              *)
(***************************************************************************)
\* round(x, 3): to the nearest multiple of 0.001, a tie going to the even one.
Round3(x) ==
    LET q == x \div 10
        r == x % 10
    IN  IF r < 5 THEN q * 10
        ELSE IF r > 5 THEN (q + 1) * 10
        ELSE IF q % 2 = 0 THEN q * 10 ELSE (q + 1) * 10

\* keys (line 42).
keys == <<"period-to-date", "year-to-date", "prior-year">>

\* str.split(" "): the pieces between single blanks.
RECURSIVE split_blank(_, _)
split_blank(s, piece) ==
    IF s = "" THEN <<piece>>
    ELSE IF Char(s, 1) = " " THEN <<piece>> \o split_blank(From(s, 2), "")
    ELSE split_blank(From(s, 2), piece \o Char(s, 1))

\* "-".join(parts).
RECURSIVE join_dash(_)
join_dash(parts) ==
    IF Len(parts) = 0 THEN ""
    ELSE IF Len(parts) = 1 THEN parts[1]
    ELSE parts[1] \o "-" \o join_dash(Tail(parts))

\* The metric key with its last character kept.
metric_key_KeepLast(customer) == join_dash(split_blank(strip(lower(customer)), ""))

\* "-".join(customer.lower().strip().split(" "))[:-1] (lines 61 and 63).
metric_key(customer) ==
    LET key == join_dash(split_blank(strip(lower(customer)), ""))
    IN  Take(key, Len(key) - 1)

\* df.dropna(how="all"): the rows that are not entirely empty, each keeping
\* the index label read_excel gave it (its position, from 0).
RECURSIVE dropna(_, _)
dropna(rows, i) ==
    IF i > Len(rows) THEN <<>>
    ELSE (IF rows[i].empty THEN <<>>
          ELSE <<[idx |-> i - 1, Customer |-> rows[i].Customer, Cost |-> rows[i].Cost]>>)
         \o dropna(rows, i + 1)

\* expected: rows [-4:-1] of the Cost column under keys[0..], rounded.
expected_of(df) ==
    LET n     == Len(df)
        first == IF n - 4 >= 0 THEN n - 3 ELSE 1
        vals  == IF n - 1 < first THEN <<>> ELSE SubSeq(df, first, n - 1)
    IN  [k \in {keys[i] : i \in 1..Len(vals)} |->
            Round3(vals[CHOOSE i \in 1..Len(vals) : keys[i] = k].Cost)]

\* df[col][label]: the position in df of the row labelled `label`, 0 if none (KeyError).
PosOfLabel(df, label) ==
    IF \E p \in 1..Len(df) : df[p].idx = label
    THEN CHOOSE p \in 1..Len(df) : df[p].idx = label
    ELSE 0

\* d[k] of a defaultdict(float) without inserting.
Get(d, k) == IF k \in DOMAIN d THEN d[k] ELSE 0

\* sales[salesperson][key] += amount on the nested defaultdict.
AddTo(sales, salesperson, key, amount) ==
    LET inner == IF salesperson \in DOMAIN sales THEN sales[salesperson] ELSE <<>>
    IN  Put(sales, salesperson, Put(inner, key, Get(inner, key) + amount))

\* The while loop of lines 60-64 for the salesperson row labelled i: the rows
\* labelled temp..j are added to the salesperson's block.  A missing label
\* (KeyError) or a Customer cell that is not a str (AttributeError) raises.
RECURSIVE read_block(_, _, _, _, _)
read_block(df, salesperson, temp, j, sales) ==
    IF temp > j THEN [raised |-> FALSE, sales |-> sales]
    ELSE LET p == PosOfLabel(df, temp) IN
         IF p = 0 \/ df[p].Customer = None THEN [raised |-> TRUE, sales |-> sales]
         ELSE read_block(df, salesperson, temp + 1, j,
                  AddTo(sales, salesperson, metric_key(df[p].Customer), df[p].Cost))

\* The iterrows loop of lines 49-64 from position p of df on.
RECURSIVE scan_rows(_, _, _, _)
scan_rows(df, p, j, sales) ==
    IF p > Len(df) THEN [raised |-> FALSE, sales |-> sales]
    ELSE LET i        == df[p].idx
             customer == df[p].Customer
         IN
         IF i <= j THEN scan_rows(df, p + 1, j, sales)
         ELSE IF customer # None /\ startswith(lower(customer), "salesperson")
         THEN LET parts == split_blank(customer, "") IN
              IF Len(parts) < 2 THEN [raised |-> TRUE, sales |-> sales]
              ELSE LET b == read_block(df, parts[2], i + 1, i + 3, sales) IN
                   IF b.raised THEN b ELSE scan_rows(df, p + 1, i + 3, b.sales)
         ELSE scan_rows(df, p + 1, j, sales)

\* sum(values.values()).
RECURSIVE sum_values(_)
sum_values(values) ==
    IF DOMAIN values = {} THEN 0
    ELSE LET k == CHOOSE k \in DOMAIN values : TRUE
         IN  values[k] + sum_values([x \in (DOMAIN values) \ {k} |-> values[x]])

\* A salesperson is dropped only when every metric is zero.
is_popped_AllZero(values) == \A k \in DOMAIN values : values[k] = 0

\* if sum(values.values()) == 0 (line 71).
is_popped(values) == sum_values(values) = 0

\* values after lines 74-76 have read the three keys of the defaultdict.
with_keys(values) ==
    [k \in (DOMAIN values) \cup {keys[i] : i \in 1..3} |-> Get(values, k)]

\* The sum of metric k over the salespersons in S.
RECURSIVE sum_metric(_, _, _)
sum_metric(sales, S, k) ==
    IF S = {} THEN 0
    ELSE LET x == CHOOSE x \in S : TRUE
         IN  Get(sales[x], k) + sum_metric(sales, S \ {x}, k)

\* Lines 66-83: actual, with the entries line 74-76 created, rounded.
actual_of(sales) ==
    LET kept == {x \in DOMAIN sales : ~is_popped(sales[x])} IN
    IF kept = {} THEN <<>>
    ELSE [k \in {keys[i] : i \in 1..3} |-> Round3(sum_metric(sales, kept, k))]

\* Lines 70-79: sales without the popped salespersons.
retained_of(sales) ==
    [x \in {x \in DOMAIN sales : ~is_popped(sales[x])} |-> with_keys(sales[x])]

\* Lines 86-92: validation_results; actual[k] of the defaultdict is 0 where unset.
validation_of(expected, sales) ==
    LET actual == actual_of(sales) IN
    [k \in DOMAIN expected |->
        [expected |-> expected[k],
         actual   |-> Get(actual, k),
         matched  |-> Get(actual, k) = expected[k]]]

NoDict == <<>>

SalesIdle ==
    /\ sFile = [kind |-> "none", rows |-> <<>>]
    /\ sPc = "idle"
    /\ sDf = <<>>
    /\ sExpected = NoDict /\ sParsed = NoDict /\ sSales = NoDict
    /\ sActual = NoDict /\ sValidation = NoDict
    /\ sResponse = "none"

\* Lines 24-27: no file was sent.
SalesReject ==
    /\ SalesFrame
    /\ sPc = "start"
    /\ sFile.kind = "none"
    /\ sResponse' = "400 Please upload an Excel file first."
    /\ sPc' = "done"
    /\ UNCHANGED <<sFile, sDf, sExpected, sParsed, sSales, sActual, sValidation>>

\* Lines 29-35: read_excel raises.
SalesReadError ==
    /\ SalesFrame
    /\ sPc = "start"
    /\ sFile.kind = "unreadable"
    /\ sResponse' = "400 Error reading Excel file"
    /\ sPc' = "done"
    /\ UNCHANGED <<sFile, sDf, sExpected, sParsed, sSales, sActual, sValidation>>

\* Lines 29-45: the table is read, empty rows dropped, expected totals taken.
SalesLoad ==
    /\ SalesFrame
    /\ sPc = "start"
    /\ sFile.kind = "excel"
    /\ sDf' = dropna(sFile.rows, 1)
    /\ sExpected' = expected_of(sDf')
    /\ sPc' = "scan"
    /\ UNCHANGED <<sFile, sParsed, sSales, sActual, sValidation, sResponse>>

\* Lines 47-64: the block scan runs to the end.
SalesScan ==
    /\ SalesFrame
    /\ sPc = "scan"
    /\ LET r == scan_rows(sDf, 1, -1, NoDict) IN
       /\ ~r.raised
       /\ sParsed' = r.sales
    /\ sPc' = "aggregate"
    /\ UNCHANGED <<sFile, sDf, sExpected, sSales, sActual, sValidation, sResponse>>

\* Lines 47-64: the block scan raises (KeyError, AttributeError, IndexError);
\* nothing catches it and the request ends with a server error.
SalesScanRaises ==
    /\ SalesFrame
    /\ sPc = "scan"
    /\ scan_rows(sDf, 1, -1, NoDict).raised
    /\ sResponse' = "500"
    /\ sPc' = "done"
    /\ UNCHANGED <<sFile, sDf, sExpected, sParsed, sSales, sActual, sValidation>>

\* Lines 66-92: totals, removal of empty salespersons, validation results.
SalesAggregate ==
    /\ SalesFrame
    /\ sPc = "aggregate"
    /\ sActual' = actual_of(sParsed)
    /\ sSales' = retained_of(sParsed)
    /\ sValidation' = validation_of(sExpected, sParsed)
    /\ sPc' = "export"
    /\ UNCHANGED <<sFile, sDf, sExpected, sParsed, sResponse>>

\* Lines 94-136: the workbook is written; validation_results[k] is read for
\* each of the three keys (KeyError when the table was too short to give all).
SalesExport ==
    /\ SalesFrame
    /\ sPc = "export"
    /\ sResponse' = IF \A i \in 1..3 : keys[i] \in DOMAIN sValidation
                    THEN "200 Sales_Analysis.xlsx" ELSE "500"
    /\ sPc' = "done"
    /\ UNCHANGED <<sFile, sDf, sExpected, sParsed, sSales, sActual, sValidation>>

(***************************************************************************)
(* main.py: sales_post, sales_download and last_sales_analysis             *)
(***************************************************************************)
\* Sales POST requests one run of the server receives.
MaxPosts == 3

\* What a sales POST may carry: no file, a file read_excel rejects, an
\* export that is processed, an export on which the block scan raises.
UploadKinds == {"none", "unreadable", "excel", "excel_raises"}

\* What process_sales_analysis returns for request `id` carrying an upload of
\* the given kind: (response, validation_results), or an exception.
sales_outcome(kind, id) ==
    CASE kind = "none" ->
             [raised |-> FALSE, validation |-> "{}",
              response |-> [status |-> 400, body |-> "Please upload an Excel file first.", req |-> id]]
      [] kind = "unreadable" ->
             [raised |-> FALSE, validation |-> "{}",
              response |-> [status |-> 400, body |-> "Error reading Excel file", req |-> id]]
      [] kind = "excel" ->
             [raised |-> FALSE, validation |-> "results",
              response |-> [status |-> 200, body |-> "Sales_Analysis.xlsx", req |-> id]]
      [] OTHER ->
             [raised |-> TRUE, validation |-> "{}",
              response |-> [status |-> 500, body |-> "Internal Server Error", req |-> id]]

NoResponse == [status |-> 0, body |-> "", req |-> 0]

\* Lines 56-57: last_sales_analysis = {"response": response, "validation": validation}.
slot_after_post(outcome) ==
    ("response" :> outcome.response) @@ ("validation" :> outcome.validation)

SlotIdle ==
    /\ lSlot = <<>>
    /\ lInflight = {}
    /\ lPosts = -1
    /\ lDownload = [response |-> NoResponse, lastOk |-> NoResponse]
    /\ lLastOk = NoResponse

\* Line 18 and server start.
SlotInit ==
    /\ lSlot = <<>>
    /\ lInflight = {}
    /\ lPosts = 0
    /\ lDownload = [response |-> NoResponse, lastOk |-> NoResponse]
    /\ lLastOk = NoResponse

\* Lines 48-53: a sales POST arrives and suspends in
\* await process_sales_analysis(file); other requests may run meanwhile.
PostBegin ==
    /\ SlotFrame
    /\ lPosts < MaxPosts
    /\ \E kind \in UploadKinds :
           lInflight' = lInflight \cup {[id |-> lPosts + 1, kind |-> kind]}
    /\ lPosts' = lPosts + 1
    /\ UNCHANGED <<lSlot, lDownload, lLastOk>>

\* Lines 53-61: process_sales_analysis returns and the slot is overwritten.
PostEnd ==
    /\ SlotFrame
    /\ \E r \in lInflight :
           LET outcome == sales_outcome(r.kind, r.id) IN
           /\ ~outcome.raised
           /\ lSlot' = slot_after_post(outcome)
           /\ lLastOk' = IF outcome.response.status = 200 THEN outcome.response ELSE lLastOk
           /\ lInflight' = lInflight \ {r}
    /\ UNCHANGED <<lPosts, lDownload>>

\* Line 53: process_sales_analysis raises; the request ends before line 57.
PostRaises ==
    /\ SlotFrame
    /\ \E r \in lInflight :
           /\ sales_outcome(r.kind, r.id).raised
           /\ lInflight' = lInflight \ {r}
    /\ UNCHANGED <<lSlot, lPosts, lDownload, lLastOk>>

\* Lines 64-71: sales_download.
Download ==
    /\ SlotFrame
    /\ lDownload' =
           [response |-> IF lSlot # <<>> /\ "response" \in DOMAIN lSlot
                         THEN lSlot["response"]
                         ELSE [status |-> 400, req |-> 0,
                               body |-> "No analysis available. Please upload a file first."],
            lastOk |-> lLastOk]
    /\ UNCHANGED <<lSlot, lInflight, lPosts, lLastOk>>

(***************************************************************************)
(* The report pipelines: app/main.work_post (text lines) and               *)
(* routes/costco.process_costco_analysis (tables)                          *)
(***************************************************************************)
\* str.endswith(suffix).
endswith(s, suffix) ==
    Len(s) >= Len(suffix) /\ SubSeq(s, Len(s) - Len(suffix) + 1, Len(s)) = suffix

IsNonEmpty(x) == x # ""

\* str.split(): the pieces between runs of blanks.
split_ws(s) == SelectSeq(split_blank(s, ""), IsNonEmpty)

\* s with every character of the set `chars` removed (str.replace(",", ""),
\* re.sub of a character class by "").
RECURSIVE remove_chars(_, _)
remove_chars(s, chars) ==
    IF s = "" THEN ""
    ELSE (IF Char(s, 1) \in chars THEN "" ELSE Char(s, 1)) \o remove_chars(From(s, 2), chars)

\* The characters of s from i to j are all digits (and exist).
AllDigits(s, i, j) == j <= Len(s) /\ \A k \in i..j : Char(s, k) \in Digits

DigitVal(c) == CHOOSE v \in 0..9 : Char("0123456789", v + 1) = c

RECURSIVE digits_value(_, _)
digits_value(s, acc) ==
    IF s = "" THEN acc ELSE digits_value(From(s, 2), acc * 10 + DigitVal(Char(s, 1)))

\* float(s) for the amounts of the reports: blanks around are ignored, an
\* optional sign and digits are a number, anything else raises ValueError.
float_of(s) ==
    LET t == strip(s) IN
    IF isdigit(t) THEN [ok |-> TRUE, val |-> digits_value(t, 0)]
    ELSE IF startswith(t, "-") /\ isdigit(From(t, 2))
         THEN [ok |-> TRUE, val |-> 0 - digits_value(From(t, 2), 0)]
         ELSE [ok |-> FALSE, val |-> 0]

\* re.match(r"\d{1,2}/\d{1,2}/\d{4}", p): p starts with a full date.
is_date_token(p) ==
    \E a \in {1, 2}, b \in {1, 2} :
        /\ AllDigits(p, 1, a)
        /\ Char(p, a + 1) = "/"
        /\ AllDigits(p, a + 2, a + 1 + b)
        /\ Char(p, a + b + 2) = "/"
        /\ AllDigits(p, a + b + 3, a + b + 6)

\* The match of (\d{1,2}/\d{1,2}) that starts at position i of text, "" if none;
\* each \d{1,2} takes two digits when it can.
mm_dd_at(text, i) ==
    LET a == IF AllDigits(text, i, i + 1) /\ Char(text, i + 2) = "/"
                  /\ AllDigits(text, i + 3, i + 3) THEN 2
             ELSE IF AllDigits(text, i, i) /\ Char(text, i + 1) = "/"
                  /\ AllDigits(text, i + 2, i + 2) THEN 1
             ELSE 0
        b == IF AllDigits(text, i + a + 1, i + a + 2) THEN 2 ELSE 1
    IN  IF a = 0 THEN "" ELSE SubSeq(text, i, i + a + b)

\* utils.extract_mm_dd(text): re.search, the leftmost match.
extract_mm_dd(text) ==
    LET at == {i \in 1..Len(text) : mm_dd_at(text, i) # ""} IN
    IF at = {} THEN [matched |-> FALSE, res |-> None]
    ELSE [matched |-> TRUE,
          res |-> mm_dd_at(text, CHOOSE i \in at : \A j \in at : i <= j)]

\* utils.extract_payment_id(text): re.search(r"#(\d+)"), the digits of the
\* leftmost '#' that is followed by a digit.
extract_payment_id(text) ==
    LET at == {i \in 1..Len(text) : Char(text, i) = "#" /\ AllDigits(text, i + 1, i + 1)} IN
    IF at = {} THEN [matched |-> FALSE, res |-> None]
    ELSE LET i == CHOOSE i \in at : \A j \in at : i <= j
         IN  [matched |-> TRUE, res |-> SubSeq(text, i + 1, i + DigitRunLen(text, i + 1))]

\* work_post lines 94-113: the rows of the text lines from the i-th on.
RECURSIVE text_rows(_, _)
text_rows(lines, i) ==
    IF i > Len(lines) THEN <<>>
    ELSE LET parts  == split_ws(lines[i])
             found  == \E d \in 1..Len(parts) : is_date_token(parts[d])
             amount == float_of(remove_chars(parts[Len(parts)], {","}))
         IN  (IF found /\ amount.ok
              THEN <<[invoiceNumber |-> parts[1], amount |-> amount.val]>>
              ELSE <<>>)
             \o text_rows(lines, i + 1)

\* costco lines 83-92: date_check_num after the lines of the first page from
\* the i-th on; the scan stops at the first Payment line that matches.
RECURSIVE scan_header(_, _, _)
scan_header(lines, i, date_check_num) ==
    IF i > Len(lines) THEN date_check_num
    ELSE IF startswith(lines[i], "Date")
         THEN LET m == extract_mm_dd(lines[i]) IN
              scan_header(lines, i + 1,
                  IF m.matched THEN Append(date_check_num, m.res) ELSE date_check_num)
    ELSE IF startswith(lines[i], "Payment")
         THEN LET m == extract_payment_id(lines[i]) IN
              IF m.matched THEN Append(date_check_num, m.res)
              ELSE scan_header(lines, i + 1, date_check_num)
    ELSE scan_header(lines, i + 1, date_check_num)

\* x if x else d, for a cell that is a str or None.
OrElse(x, d) == IF Falsy(x) THEN d ELSE x

\* costco lines 103-133: the rows of one table from its i-th row on.
RECURSIVE table_rows(_, _)
table_rows(table, i) ==
    IF i > Len(table) THEN <<>>
    ELSE LET row == table[i] IN
         (IF Len(row) < 7 THEN <<>>
          ELSE LET invoice    == OrElse(row[1], "")
                   amount_str == strip(remove_chars(OrElse(row[7], "0"), {","}))
                   amount     == float_of(amount_str)
               IN  IF amount_str = "" \/ invoice = "" THEN <<>>
                   ELSE IF ~amount.ok THEN <<>>
                   ELSE <<[invoiceNumber |-> strip(invoice),
                           orderNumber   |-> strip(OrElse(row[2], "")),
                           description   |-> strip(OrElse(row[3], "")),
                           date          |-> strip(OrElse(row[4], "")),
                           amount        |-> amount.val]>>)
         \o table_rows(table, i + 1)

\* costco lines 95-133: the rows of all tables from the i-th on; a table of
\* fewer than 2 rows is skipped, the first row of a table is its header.
RECURSIVE tables_rows(_, _)
tables_rows(tables, i) ==
    IF i > Len(tables) THEN <<>>
    ELSE (IF Len(tables[i]) < 2 THEN <<>> ELSE table_rows(tables[i], 2))
         \o tables_rows(tables, i + 1)

\* file_rows of one upload on either route.
file_rows(route, file) ==
    IF route = "work" THEN text_rows(file.header \o file.text, 1)
    ELSE tables_rows(file.tables, 1)

\* store_mapping.get(key, "Unknown").
store_name(store_names, key) ==
    IF key \in DOMAIN store_names THEN store_names[key] ELSE "Unknown"

\* r with fields storeKey and storeName set.
WithStore(r, key, name) ==
    [f \in (DOMAIN r) \cup {"storeKey", "storeName"} |->
        IF f = "storeKey" THEN key ELSE IF f = "storeName" THEN name ELSE r[f]]

\* Lines 141-146 (costco) / 121-126 (work_post): the first resolution, n = -6.
pass1(rows, store_names) ==
    [i \in 1..Len(rows) |->
        LET key == extract_key(rows[i].invoiceNumber, store_names, -6)
        IN  WithStore(rows[i], key, store_name(store_names, key))]

\* The second try made with the offset of the first.
pass2_AlwaysSix(rows, store_names) ==
    [i \in 1..Len(rows) |->
        IF rows[i].storeName = "Unknown"
        THEN LET skey == extract_key(rows[i].invoiceNumber, store_names, -6)
             IN  WithStore(rows[i], skey, store_name(store_names, skey))
        ELSE rows[i]]

\* Lines 149-157 (costco) / 129-137 (work_post): rows named "Unknown" are
\* resolved again, with n = -7 when the invoice has 11 characters or more.
pass2(rows, store_names) ==
    [i \in 1..Len(rows) |->
        IF rows[i].storeName = "Unknown"
        THEN LET inv  == rows[i].invoiceNumber
                 n    == IF Len(inv) >= 11 THEN -7 ELSE -6
                 skey == extract_key(inv, store_names, n)
             IN  WithStore(rows[i], skey, store_name(store_names, skey))
        ELSE rows[i]]

\* df[["storeName", "amount"]].
name_amount(rows) ==
    [i \in 1..Len(rows) |-> [storeName |-> rows[i].storeName, amount |-> rows[i].amount]]

\* The sum of the amounts of the rows from the i-th on.
RECURSIVE amount_sum(_, _)
amount_sum(rows, i) == IF i > Len(rows) THEN 0 ELSE rows[i].amount + amount_sum(rows, i + 1)

\* groupby("storeName").sum(): the total of each store name that occurs.
groupby_sum(rows) ==
    [name \in {rows[i].storeName : i \in 1..Len(rows)} |->
        amount_sum(SelectSeq(rows, LAMBDA r : r.storeName = name), 1)]

\* pd.concat(aggregated).
RECURSIVE concat(_)
concat(frames) == IF frames = <<>> THEN <<>> ELSE Head(frames) \o concat(Tail(frames))

\* costco lines 162-165: the section name of a file.
section_name(date_check_num, filename) ==
    IF Len(date_check_num) >= 2
    THEN date_check_num[1] \o " #" \o date_check_num[2]
    ELSE filename

\* detailed[name] = value: a dict keeps one entry per key, at the
\* place where the key was first inserted.
dict_put(entries, name, value) ==
    IF \E i \in 1..Len(entries) : entries[i].name = name
    THEN [i \in 1..Len(entries) |->
             IF entries[i].name = name THEN [name |-> name, value |-> value] ELSE entries[i]]
    ELSE Append(entries, [name |-> name, value |-> value])

\* re.sub(r"[\\*?:/\[\]]", "", filename)[:31].
safe_name(filename) ==
    Take(remove_chars(filename, {"\\", "*", "?", ":", "/", "[", "]"}), 31)

\* The sum of the values of a dict of numbers.
total_of(summary) == sum_values(summary)

\* work_post lines 146-184: the response built from what the loop collected.
finish_work(aggregated, detailed) ==
    IF aggregated = <<>>
    THEN [status |-> 400, body |-> "No valid transaction data found in uploaded PDFs."]
    ELSE [status  |-> 200,
          body    |-> "Costco_Analysis.xlsx",
          summary |-> groupby_sum(concat(aggregated)),
          sheets  |-> [i \in 1..Len(detailed) |->
                          [title |-> safe_name(detailed[i].name),
                           rows  |-> detailed[i].value,
                           total |-> amount_sum(detailed[i].value, 1)]]]

\* costco lines 188-225: one sheet per section; rdate, rcheck = filename.split()
\* raises ValueError unless the name has exactly two words, and nothing catches it.
finish_costco(detailed) ==
    IF \E i \in 1..Len(detailed) : Len(split_ws(detailed[i].name)) # 2
    THEN [status |-> 500, body |-> "Internal Server Error"]
    ELSE [status |-> 200,
          body   |-> "Costco.xlsx",
          sheets |-> [i \in 1..Len(detailed) |->
                         LET name == detailed[i].name
                             df   == detailed[i].value[1]
                             df2  == detailed[i].value[2]
                         IN  [title   |-> safe_name(name),
                              rows    |-> df,
                              summary |-> df2,
                              total   |-> total_of(df2),
                              rdate   |-> split_ws(name)[1],
                              rcheck  |-> split_ws(name)[2]]]]

NoFrame == <<>>

PipeIdle ==
    /\ pRoute = "none"
    /\ pStore = [kind |-> "none", df |-> [ncols |-> 0, rows |-> <<>>]]
    /\ pFiles = <<>>
    /\ pPc = "idle"
    /\ pIdx = 0
    /\ pRows = NoFrame
    /\ store_mapping = NoDict
    /\ aggregated_data = <<>>
    /\ detailed_dataframes = <<>>
    /\ pResponse = [status |-> 0, body |-> ""]
    /\ pParsedTotal = 0
    /\ pSections = <<>>

\* What the steps inside the loop leave alone.
LoopKeeps == UNCHANGED <<pRoute, pStore, pFiles, store_mapping, pResponse>>

\* The loop went past the failing upload and ended.
next_after_failure_Abort(i, n) == n + 1

\* for file in files: the upload after the i-th of n; a failure caught by
\* the except clause goes on with the next one like any other iteration.
next_after_failure(i, n) == i + 1

\* The upload at hand.
CurrentFile == pFiles[pIdx]

InLoop == pPc = "file" /\ pIdx <= Len(pFiles)

\* costco lines 43-65 / work_post lines 56-78: no store file, a file that is
\* neither .csv nor .xlsx/.xls, or one that cannot be read: the request is rejected.
LoadStoreRejected ==
    /\ PipeFrame
    /\ pPc = "load"
    /\ pStore.kind \in {"none", "other", "unreadable"}
    /\ pResponse' =
           [status |-> 400,
            body |-> CASE pStore.kind = "none" ->
                              "Please upload a store mapping CSV or XLSX file first."
                       [] pStore.kind = "other" ->
                              "Error: Store mapping file must be .csv or .xlsx"
                       [] OTHER -> "Error loading store mapping"]
    /\ pPc' = "done"
    /\ UNCHANGED <<pRoute, pStore, pFiles, pIdx, pRows, store_mapping, aggregated_data,
                   detailed_dataframes, pParsedTotal, pSections>>

\* costco lines 43-56 / work_post lines 56-69: store_mapping = get_store_names(df=df_stores).
LoadStore ==
    /\ PipeFrame
    /\ pPc = "load"
    /\ pStore.kind \in {"csv", "xlsx"}
    /\ store_mapping' = get_store_names("df", pStore.df)
    /\ pPc' = "file"
    /\ pIdx' = 1
    /\ UNCHANGED <<pRoute, pStore, pFiles, pRows, aggregated_data, detailed_dataframes,
                   pResponse, pParsedTotal, pSections>>

\* costco lines 70-71 / work_post lines 83-84: an upload that is not named *.pdf.
SkipFile ==
    /\ PipeFrame
    /\ InLoop
    /\ ~endswith(lower(CurrentFile.filename), ".pdf")
    /\ pIdx' = pIdx + 1
    /\ LoopKeeps
    /\ UNCHANGED <<pPc, pRows, aggregated_data, detailed_dataframes, pParsedTotal, pSections>>

\* costco lines 74-133, 169-174 / work_post lines 87-113, 142-144: opening or
\* reading the PDF raises; the except clause logs it and the loop goes on.
ExtractRaises ==
    /\ PipeFrame
    /\ InLoop
    /\ endswith(lower(CurrentFile.filename), ".pdf")
    /\ CurrentFile.raises
    /\ pIdx' = next_after_failure(pIdx, Len(pFiles))
    /\ LoopKeeps
    /\ UNCHANGED <<pPc, pRows, aggregated_data, detailed_dataframes, pParsedTotal, pSections>>

\* costco lines 135-136 / work_post lines 115-116: no row was extracted.
ExtractEmpty ==
    /\ PipeFrame
    /\ InLoop
    /\ endswith(lower(CurrentFile.filename), ".pdf")
    /\ ~CurrentFile.raises
    /\ file_rows(pRoute, CurrentFile) = <<>>
    /\ pIdx' = pIdx + 1
    /\ LoopKeeps
    /\ UNCHANGED <<pPc, pRows, aggregated_data, detailed_dataframes, pParsedTotal, pSections>>

\* costco lines 74-138 / work_post lines 87-118: df = pd.DataFrame(file_rows).
Extract ==
    /\ PipeFrame
    /\ InLoop
    /\ endswith(lower(CurrentFile.filename), ".pdf")
    /\ ~CurrentFile.raises
    /\ file_rows(pRoute, CurrentFile) # <<>>
    /\ pRows' = file_rows(pRoute, CurrentFile)
    /\ pParsedTotal' = pParsedTotal + amount_sum(pRows', 1)
    /\ pPc' = "pass1"
    /\ LoopKeeps
    /\ UNCHANGED <<pIdx, aggregated_data, detailed_dataframes, pSections>>

\* costco lines 140-146 / work_post lines 120-126.
Pass1 ==
    /\ PipeFrame
    /\ pPc = "pass1"
    /\ pRows' = pass1(pRows, store_mapping)
    /\ pPc' = "pass2"
    /\ LoopKeeps
    /\ UNCHANGED <<pIdx, aggregated_data, detailed_dataframes, pParsedTotal, pSections>>

\* costco lines 148-157 / work_post lines 128-137.
Pass2 ==
    /\ PipeFrame
    /\ pPc = "pass2"
    /\ pRows' = pass2(pRows, store_mapping)
    /\ pPc' = "store"
    /\ LoopKeeps
    /\ UNCHANGED <<pIdx, aggregated_data, detailed_dataframes, pParsedTotal, pSections>>

\* work_post lines 139-140: the detail table is kept under the upload's name.
StoreWork ==
    /\ PipeFrame
    /\ pPc = "store"
    /\ pRoute = "work"
    /\ detailed_dataframes' = dict_put(detailed_dataframes, CurrentFile.filename, pRows)
    /\ aggregated_data' = Append(aggregated_data, name_amount(pRows))
    /\ pSections' = Append(pSections, [idx |-> pIdx, name |-> CurrentFile.filename])
    /\ pRows' = NoFrame
    /\ pIdx' = pIdx + 1
    /\ pPc' = "file"
    /\ LoopKeeps
    /\ UNCHANGED pParsedTotal

\* costco lines 159-167: the detail table and its sub-summary are kept under
\* the section name.
StoreCostco ==
    /\ PipeFrame
    /\ pPc = "store"
    /\ pRoute = "costco"
    /\ LET df2      == groupby_sum(name_amount(pRows))
           filename == section_name(scan_header(CurrentFile.header, 1, <<>>),
                                    CurrentFile.filename)
       IN  /\ detailed_dataframes' = dict_put(detailed_dataframes, filename, <<pRows, df2>>)
           /\ pSections' = Append(pSections, [idx |-> pIdx, name |-> filename])
    /\ aggregated_data' = Append(aggregated_data, name_amount(pRows))
    /\ pRows' = NoFrame
    /\ pIdx' = pIdx + 1
    /\ pPc' = "file"
    /\ LoopKeeps
    /\ UNCHANGED pParsedTotal

\* work_post lines 146-184.
FinishWork ==
    /\ PipeFrame
    /\ pPc = "file" /\ pIdx > Len(pFiles)
    /\ pRoute = "work"
    /\ pResponse' = finish_work(aggregated_data, detailed_dataframes)
    /\ pPc' = "done"
    /\ UNCHANGED <<pRoute, pStore, pFiles, pIdx, pRows, store_mapping, aggregated_data,
                   detailed_dataframes, pParsedTotal, pSections>>

\* costco lines 187-225.
FinishCostco ==
    /\ PipeFrame
    /\ pPc = "file" /\ pIdx > Len(pFiles)
    /\ pRoute = "costco"
    /\ pResponse' = finish_costco(detailed_dataframes)
    /\ pPc' = "done"
    /\ UNCHANGED <<pRoute, pStore, pFiles, pIdx, pRows, store_mapping, aggregated_data,
                   detailed_dataframes, pParsedTotal, pSections>>

(***************************************************************************)
(* Resolver harness: extract_key applied to bounded inputs                 *)
(***************************************************************************)
\* Longest leading part of a generated identifier.
MaxHead == 4

\* Characters of the leading part: two digits and a letter.
HeadAlphabet == {"0", "1", "A"}

RECURSIVE StringsUpTo(_, _)
StringsUpTo(alphabet, k) ==
    IF k = 0 THEN {""}
    ELSE LET shorter == StringsUpTo(alphabet, k - 1)
         IN  shorter \cup {s \o c : s \in shorter, c \in alphabet}

\* Trailing parts: nothing, six characters (cut off by n = -6), seven
\* characters of which the first is a digit (cut off only by n = -7).
Tails == {"", "-00001", "1-00001"}

Invoices == {h \o t : h \in StringsUpTo(HeadAlphabet, MaxHead), t \in Tails} \cup {None}

\* Keys an arbitrary directory may hold, padded or not.
KeyPool == {"", "0000", "0001", "1", "0010", "10"}

Dirs == {[k \in K |-> "S" \o k] : K \in SUBSET KeyPool}

KeyIdle ==
    kInvoice = "" /\ kDir = <<>> /\ kN = 0 /\ kRes = "" /\ kPc = "idle"

KeyInit ==
    /\ kInvoice \in Invoices
    /\ kDir \in Dirs
    /\ kN \in {-6, -7}
    /\ kRes = ""
    /\ kPc = "call"

Resolve ==
    /\ KeyFrame
    /\ kPc = "call"
    /\ kRes' = extract_key(kInvoice, kDir, kN)
    /\ kPc' = "done"
    /\ UNCHANGED <<kInvoice, kDir, kN>>

DirIdle ==
    gSrc = "" /\ gDf = <<>> /\ gRes = <<>> /\ gPc = "idle"

InitKey == KeyInit /\ DirIdle /\ SalesIdle /\ SlotIdle /\ PipeIdle

NextKey == Resolve

SpecKey == InitKey /\ [][NextKey]_vars

(***************************************************************************)
(* Claims about extract_key                                                *)
(***************************************************************************)
\* The tiers as the contract states them, without the code's helpers.
\* The positions of t that hold a digit.
DigitPositions(t) == {i \in 1..Len(t) : SubSeq(t, i, i) \in Digits}

\* The first maximal digit run of t (t holds a digit).
FirstRun(t) ==
    LET i0 == CHOOSE i \in DigitPositions(t) : \A j \in DigitPositions(t) : i <= j
        j0 == CHOOSE j \in i0..Len(t) :
                  /\ (i0..j) \subseteq DigitPositions(t)
                  /\ (j + 1) \notin DigitPositions(t)
    IN  SubSeq(t, i0, j0)

\* r without its leading zeros: the suffix of r that does not start with "0"
\* and is preceded by zeros only.
NoLeadingZeros(r) ==
    LET k == CHOOSE k \in 0..Len(r) :
                 /\ \A i \in 1..k : SubSeq(r, i, i) = "0"
                 /\ (k < Len(r) => SubSeq(r, k + 1, k + 1) # "0")
    IN  IF k = Len(r) THEN "" ELSE SubSeq(r, k + 1, Len(r))

\* r without its trailing zeros.
NoTrailingZeros(r) ==
    LET k == CHOOSE k \in 0..Len(r) :
                 /\ \A i \in (k + 1)..Len(r) : SubSeq(r, i, i) = "0"
                 /\ (k > 0 => SubSeq(r, k, k) # "0")
    IN  IF k = 0 THEN "" ELSE SubSeq(r, 1, k)

\* s left-padded with zeros to 4 characters.
Pad4(s) ==
    CASE Len(s) = 0 -> "0000"
      [] Len(s) = 1 -> "000" \o s
      [] Len(s) = 2 -> "00" \o s
      [] Len(s) = 3 -> "0" \o s
      [] OTHER      -> s

\* The truncated identifier str(invoice)[:n].
Truncated(invoice, n) ==
    IF Len(invoice) + n <= 0 THEN "" ELSE SubSeq(invoice, 1, Len(invoice) + n)

HasRun(invoice, n) ==
    /\ invoice # None
    /\ invoice # ""
    /\ DigitPositions(Truncated(invoice, n)) # {}

Candidate(invoice, n) == Pad4(NoLeadingZeros(FirstRun(Truncated(invoice, n))))
LeftStripped(invoice, n) == NoLeadingZeros(Candidate(invoice, n))
RightStrippedPadded(invoice, n) == Pad4(NoTrailingZeros(Candidate(invoice, n)))

TierResult(invoice, D, n) ==
    IF ~HasRun(invoice, n) THEN "0000"
    ELSE LET tiers == <<Candidate(invoice, n), LeftStripped(invoice, n),
                        RightStrippedPadded(invoice, n)>>
             hits == {i \in 1..3 : tiers[i] \in DOMAIN D}
         IN  IF hits = {} THEN "0000"
             ELSE tiers[CHOOSE i \in hits : \A j \in hits : i <= j]

\* C1: extract_key(invoice, D, n) returns the first matching tier in fixed
\* order: "0000" for an empty or null identifier or when the truncated
\* identifier holds no digit; otherwise the 4-padded candidate if it is a key
\* of D, else the candidate without leading zeros if that is a key, else the
\* candidate without trailing zeros re-padded to 4 if that is a key, else
\* "0000"; for every identifier, directory and n in {-6, -7}.
C1_TierOrder == kPc = "done" => kRes = TierResult(kInvoice, kDir, kN)

\* A call where tier 2 and tier 3 both match and tier 1 does not: the order
\* of the tiers decides the result.
C1_Witness ==
    /\ kPc = "done"
    /\ HasRun(kInvoice, kN)
    /\ Candidate(kInvoice, kN) \notin DOMAIN kDir
    /\ LeftStripped(kInvoice, kN) \in DOMAIN kDir
    /\ RightStrippedPadded(kInvoice, kN) \in DOMAIN kDir
    /\ LeftStripped(kInvoice, kN) # RightStrippedPadded(kInvoice, kN)
    /\ kRes = LeftStripped(kInvoice, kN)

\* C2 as stated: whenever the left-stripped run is not a key of D and the
\* right-stripped-padded form is, extract_key returns the right-stripped-padded
\* form, also when the 4-padded candidate is itself a key of D.
C2_Original ==
    (/\ kPc = "done"
     /\ HasRun(kInvoice, kN)
     /\ LeftStripped(kInvoice, kN) \notin DOMAIN kDir
     /\ RightStrippedPadded(kInvoice, kN) \in DOMAIN kDir)
    => kRes = RightStrippedPadded(kInvoice, kN)

\* C2 (amended): whenever neither the 4-padded candidate nor the left-stripped
\* run is a key of D and the right-stripped-padded form is, extract_key
\* returns the right-stripped-padded form.
C2_Tier3 ==
    (/\ kPc = "done"
     /\ HasRun(kInvoice, kN)
     /\ Candidate(kInvoice, kN) \notin DOMAIN kDir
     /\ LeftStripped(kInvoice, kN) \notin DOMAIN kDir
     /\ RightStrippedPadded(kInvoice, kN) \in DOMAIN kDir)
    => kRes = RightStrippedPadded(kInvoice, kN)

\* A call that tier 3 decides with a key other than the sentinel.
C2_Witness ==
    /\ kPc = "done"
    /\ HasRun(kInvoice, kN)
    /\ Candidate(kInvoice, kN) \notin DOMAIN kDir
    /\ LeftStripped(kInvoice, kN) \notin DOMAIN kDir
    /\ RightStrippedPadded(kInvoice, kN) \in DOMAIN kDir
    /\ RightStrippedPadded(kInvoice, kN) # "0000"
    /\ kRes = RightStrippedPadded(kInvoice, kN)

(***************************************************************************)
(* Normaliser harness: get_store_names applied to bounded tables           *)
(***************************************************************************)
\* Most rows of a generated mapping table.
MaxRows == 3

\* Stringified code cells: empty, NaN, padded with blanks, with one or two
\* '#', five digits, a sentinel code, not numeric.
CodeCells == {"", "NaN", " 7 ", "##7", "12345", "#1997", "x9"}

NameCells == {"A", " B "}

RowsOf(ncols) ==
    CASE ncols = 1 -> {<<x>> : x \in NameCells}
      [] ncols = 2 -> {<<x, y>> : x \in NameCells, y \in CodeCells}
      [] OTHER     -> {<<x, "-", y>> : x \in NameCells, y \in CodeCells}

RECURSIVE SeqsUpTo(_, _)
SeqsUpTo(S, k) ==
    IF k = 0 THEN {<<>>}
    ELSE LET shorter == SeqsUpTo(S, k - 1)
         IN  shorter \cup {Append(q, x) : q \in shorter, x \in S}

Tables ==
    {[ncols |-> c, rows |-> r] : c \in {1}, r \in SeqsUpTo(RowsOf(1), MaxRows)}
    \cup {[ncols |-> c, rows |-> r] : c \in {2}, r \in SeqsUpTo(RowsOf(2), MaxRows)}
    \cup {[ncols |-> c, rows |-> r] : c \in {3}, r \in SeqsUpTo(RowsOf(3), MaxRows)}

NoTable == [ncols |-> 0, rows |-> <<>>]

DirInit ==
    /\ \/ gSrc \in {"df", "csv"} /\ gDf \in Tables
       \/ gSrc \in {"csv_error", "none"} /\ gDf = NoTable
    /\ gRes = <<>>
    /\ gPc = "call"

Normalise ==
    /\ DirFrame
    /\ gPc = "call"
    /\ gRes' = get_store_names(gSrc, gDf)
    /\ gPc' = "done"
    /\ UNCHANGED <<gSrc, gDf>>

InitDir == DirInit /\ KeyIdle /\ SalesIdle /\ SlotIdle /\ PipeIdle

NextDir == Normalise

SpecDir == InitDir /\ [][NextDir]_vars

(***************************************************************************)
(* Claims about get_store_names                                            *)
(***************************************************************************)
\* The code cell of row r of the table: column 2 of three or more, else column 1.
CodeCellOf(df, r) == IF df.ncols >= 3 THEN df.rows[r][3] ELSE df.rows[r][2]

\* The rows of the table that are read: none unless there are two columns.
ReadRows == IF gSrc \in {"df", "csv"} /\ gDf.ncols >= 2 THEN 1..Len(gDf.rows) ELSE {}

OnlyDigits(k) == \A i \in 1..Len(k) : SubSeq(k, i, i) \in Digits

\* k occurs in s as a substring.
OccursIn(k, s) == \E i \in 1..Len(s) : i + Len(k) - 1 <= Len(s) /\ SubSeq(s, i, i + Len(k) - 1) = k

\* C3 as stated: every key of the directory is exactly 4 characters long and
\* consists only of digits, for any mapping table.
C3_Original ==
    gPc = "done" => \A k \in DOMAIN gRes : Len(k) = 4 /\ OnlyDigits(k)

\* C3 (amended): every key of the directory consists only of digits and has
\* at least 4 characters; a key longer than 4 is the unpadded digit string of
\* some row's code cell.
C3_KeyShape ==
    gPc = "done" =>
        \A k \in DOMAIN gRes :
            /\ OnlyDigits(k)
            /\ Len(k) >= 4
            /\ Len(k) > 4 => \E r \in ReadRows : OccursIn(k, CodeCellOf(gDf, r))

\* A table with a five-digit code and a code behind two '#': both become keys.
C3_Witness ==
    /\ gPc = "done"
    /\ \E r \in ReadRows : CodeCellOf(gDf, r) = "12345"
    /\ \E r \in ReadRows : CodeCellOf(gDf, r) = "##7"
    /\ {"12345", "0007"} \subseteq DOMAIN gRes

\* C4: the directory always maps "0000" to "Unknown" and "1997" to "C991997",
\* whatever the table holds (fewer than 2 columns, a read exception, rows
\* that normalise to a sentinel code); every other key is the normalised code
\* of a row and maps to the trimmed name of the last such row, and every
\* normalised code of a row that is read is a key.
C4_SentinelsAndLastWins ==
    gPc = "done" =>
        LET code == [r \in ReadRows |-> key_formatter(CodeCellOf(gDf, r))] IN
        /\ {"0000", "1997"} \subseteq DOMAIN gRes
        /\ gRes["0000"] = "Unknown"
        /\ gRes["1997"] = "C991997"
        /\ \A k \in (DOMAIN gRes) \ {"0000", "1997"} :
               \E r \in ReadRows :
                   /\ code[r] = k
                   /\ gRes[k] = strip(gDf.rows[r][1])
                   /\ \A q \in ReadRows : q > r => code[q] # k
        /\ \A r \in ReadRows : code[r] # "-1" => code[r] \in DOMAIN gRes

\* A table where two rows share a normalised code under different names and
\* a third row normalises to the sentinel code "1997".
C4_Witness ==
    /\ gPc = "done"
    /\ \E r, q \in ReadRows :
           /\ r < q
           /\ key_formatter(CodeCellOf(gDf, r)) = "0007"
           /\ key_formatter(CodeCellOf(gDf, q)) = "0007"
           /\ strip(gDf.rows[r][1]) # strip(gDf.rows[q][1])
           /\ gRes["0007"] = strip(gDf.rows[q][1])
    /\ \E r \in ReadRows : key_formatter(CodeCellOf(gDf, r)) = "1997"
    /\ gRes["1997"] = "C991997"

(***************************************************************************)
(* Sales harness: process_sales_analysis on bounded exports                *)
(***************************************************************************)
\* Most segments (blocks or single rows) before the footer of a generated export.
MaxSegments == 2

Row(customer, cost) == [Customer |-> customer, Cost |-> cost, empty |-> FALSE]

\* The three metric labels, with and without a final character after the words.
LabelStyles ==
    { <<"Period To Date:", "Year To Date:", "Prior Year:">>,
      <<"Period To Date", "Year To Date", "Prior Year">> }

\* Costs of a block: all zero, summing to zero, plain, below and above half a
\* thousandth.
BlockCosts == { <<0, 0, 0>>, <<1000, -1000, 0>>, <<1000, 2000, 500>>, <<4, 0, 0>>, <<6, 0, 0>> }

Salespersons == {"John", "Amy"}

\* A salesperson row followed by its three metric rows.
Block(name, labels, c) ==
    << Row("Salesperson " \o name, 0), Row(labels[1], c[1]),
       Row(labels[2], c[2]), Row(labels[3], c[3]) >>

\* What else an export holds: a customer row, an entirely empty row, a
\* salesperson row that is not followed by its metric rows.
OtherSegments ==
    { <<Row("Acme", 700)>>,
      <<[Customer |-> None, Cost |-> 0, empty |-> TRUE]>>,
      <<Row("SALESPERSON Bo", 0)>> }

Segments(labels) ==
    {Block(n, labels, c) : n \in Salespersons, c \in BlockCosts} \cup OtherSegments

\* The last four rows: three totals and a closing row.
FooterCosts == { <<0, 0, 0>>, <<1000, 2000, 500>>, <<2000, 4000, 1000>>, <<10, 0, 0>> }

Footer(e) ==
    << Row("Total", e[1]), Row("Total", e[2]), Row("Total", e[3]), Row("End", 0) >>

RECURSIVE Flatten(_)
Flatten(segs) == IF segs = <<>> THEN <<>> ELSE Head(segs) \o Flatten(Tail(segs))

Exports ==
    UNION { { Flatten(segs) \o Footer(e) : segs \in SeqsUpTo(Segments(labels), MaxSegments),
                                            e \in FooterCosts }
            : labels \in LabelStyles }

SalesInit ==
    /\ \/ sFile \in {[kind |-> k, rows |-> <<>>] : k \in {"none", "unreadable"}}
       \/ sFile \in {[kind |-> "excel", rows |-> r] : r \in Exports}
    /\ sPc = "start"
    /\ sDf = <<>>
    /\ sExpected = NoDict /\ sParsed = NoDict /\ sSales = NoDict
    /\ sActual = NoDict /\ sValidation = NoDict
    /\ sResponse = "none"

InitSales == SalesInit /\ KeyIdle /\ DirIdle /\ SlotIdle /\ PipeIdle

NextSales ==
    \/ SalesReject
    \/ SalesReadError
    \/ SalesLoad
    \/ SalesScan
    \/ SalesScanRaises
    \/ SalesAggregate
    \/ SalesExport

SpecSales == InitSales /\ [][NextSales]_vars

(***************************************************************************)
(* Claims about the sales validator                                        *)
(***************************************************************************)
\* The request ran to its end and returned the workbook.
SalesDone == sPc = "done" /\ sResponse = "200 Sales_Analysis.xlsx"

\* A Customer cell that opens a salesperson block.
IsSalespersonCell(c) ==
    c # None /\ Len(c) >= 11 /\ lower(SubSeq(c, 1, 11)) = "salesperson"

\* The export holds the row "Salesperson John" exactly once, at position i,
\* not inside the three rows after another salesperson row, followed by rows
\* with the three given labels.
JohnBlockAt(i, labels) ==
    LET rows == sFile.rows IN
    /\ i \in 1..Len(rows) /\ i + 3 <= Len(rows)
    /\ rows[i].Customer = "Salesperson John"
    /\ \A q \in 1..Len(rows) : rows[q].Customer = "Salesperson John" => q = i
    /\ \A q \in 1..Len(rows) : (q < i /\ q >= i - 3) => ~IsSalespersonCell(rows[q].Customer)
    /\ \A m \in 1..3 : ~rows[i + m].empty /\ rows[i + m].Customer = labels[m]

\* The sum of f over the finite set S.
RECURSIVE SumOver(_, _)
SumOver(S, f) ==
    IF S = {} THEN 0
    ELSE LET x == CHOOSE x \in S : TRUE IN f[x] + SumOver(S \ {x}, [y \in S \ {x} |-> f[y]])

\* The total of metric k over the salespersons of the output table other than `but`.
OthersTotal(k, but) ==
    LET S == (DOMAIN sSales) \ {but}
    IN  SumOver(S, [x \in S |-> IF k \in DOMAIN sSales[x] THEN sSales[x][k] ELSE 0])

\* What the scenario promises for a block with the given labels.
JohnBlockRecorded(labels) ==
    \A i \in 1..Len(sFile.rows) :
        LET rows == sFile.rows
            a == rows[i + 1].Cost
            b == rows[i + 2].Cost
            c == rows[i + 3].Cost
        IN  (SalesDone /\ JohnBlockAt(i, labels) /\ a + b + c # 0) =>
                /\ "John" \in DOMAIN sSales
                /\ sSales["John"] = ("period-to-date" :> a @@ "year-to-date" :> b
                                     @@ "prior-year" :> c)
                /\ sActual["period-to-date"] = Round3(a + OthersTotal("period-to-date", "John"))
                /\ sActual["year-to-date"] = Round3(b + OthersTotal("year-to-date", "John"))
                /\ sActual["prior-year"] = Round3(c + OthersTotal("prior-year", "John"))

\* C6 as stated: the row "Salesperson John" followed by rows labelled
\* "Period To Date", "Year To Date", "Prior Year" with costs a, b, c (not
\* summing to zero) gives the block {period-to-date: a, year-to-date: b,
\* prior-year: c} for "John", retained, and a, b, c are added to ActualTotals
\* under those keys.
C6_Original == JohnBlockRecorded(<<"Period To Date", "Year To Date", "Prior Year">>)

\* C6 (amended): the same with the rows labelled "Period To Date:", "Year To
\* Date:", "Prior Year:", whose final character the parser drops.
C6_JohnBlock == JohnBlockRecorded(<<"Period To Date:", "Year To Date:", "Prior Year:">>)

\* An export with John's block of costs 1000, 2000, 500 under the labels
\* that end in ':' and a second salesperson in the output table.
C6_Witness ==
    /\ SalesDone
    /\ \E i \in 1..Len(sFile.rows) :
           /\ JohnBlockAt(i, <<"Period To Date:", "Year To Date:", "Prior Year:">>)
           /\ sFile.rows[i + 1].Cost = 1000
           /\ sFile.rows[i + 3].Cost = 500
    /\ "John" \in DOMAIN sSales
    /\ "Amy" \in DOMAIN sSales

\* The sum of all the amounts accumulated for salesperson x by the block scan.
Accumulated(x) == SumOver(DOMAIN sParsed[x], sParsed[x])

\* The total of metric k accumulated by the salespersons of the output table.
RetainedTotal(k) ==
    SumOver(DOMAIN sSales,
            [x \in DOMAIN sSales |-> IF k \in DOMAIN sParsed[x] THEN sParsed[x][k] ELSE 0])

\* The Cost cell that the expected total of keys[i] is read from.
FooterCost(i) == sDf[Len(sDf) - 4 + i].Cost

\* C7: a salesperson whose accumulated metrics sum to zero is not in the
\* output table and adds nothing to ActualTotals; every other salesperson is
\* in it with the amounts accumulated; ActualTotals of each metric is the
\* rounded sum of that metric over exactly the salespersons of the output
\* table; matched holds iff rounded actual equals rounded expected.
C7_ZeroBlocksExcluded ==
    (sPc = "export" \/ SalesDone) =>
        /\ DOMAIN sSales = {x \in DOMAIN sParsed : Accumulated(x) # 0}
        /\ \A x \in DOMAIN sSales : \A k \in DOMAIN sParsed[x] : sSales[x][k] = sParsed[x][k]
        /\ \A i \in 1..3 :
               (IF keys[i] \in DOMAIN sActual THEN sActual[keys[i]] ELSE 0)
                   = Round3(RetainedTotal(keys[i]))
        /\ \A i \in 1..3 :
               /\ keys[i] \in DOMAIN sValidation
               /\ sValidation[keys[i]].matched
                      <=> (Round3(RetainedTotal(keys[i])) = Round3(FooterCost(i)))

\* An export where one salesperson's metrics are not all zero yet sum to
\* zero, another is retained, and a nonzero total matches the expected one.
C7_Witness ==
    /\ SalesDone
    /\ \E x \in (DOMAIN sParsed) \ (DOMAIN sSales) : \E k \in DOMAIN sParsed[x] : sParsed[x][k] # 0
    /\ DOMAIN sSales # {}
    /\ \E i \in 1..3 : sValidation[keys[i]].matched /\ sValidation[keys[i]].actual # 0

(***************************************************************************)
(* Sales endpoints: any interleaving of POSTs and downloads                *)
(***************************************************************************)
InitSlot == SlotInit /\ KeyIdle /\ DirIdle /\ SalesIdle /\ PipeIdle

NextSlot ==
    \/ PostBegin
    \/ PostEnd
    \/ PostRaises
    \/ Download

SpecSlot == InitSlot /\ [][NextSlot]_vars

\* C8: the slot holds the result of the most recent successful sales request
\* (a failed request leaves it unchanged), and a download returns that
\* request's spreadsheet, or the 'No analysis available' rejection when no
\* request has succeeded yet.
C8_SlotHoldsLastSuccess ==
    /\ IF lLastOk = NoResponse THEN lSlot = <<>>
       ELSE "response" \in DOMAIN lSlot /\ lSlot["response"] = lLastOk
    /\ lDownload.response # NoResponse =>
           IF lDownload.lastOk = NoResponse
           THEN lDownload.response.status = 400
                /\ lDownload.response.body = "No analysis available. Please upload a file first."
           ELSE lDownload.response = lDownload.lastOk

(***************************************************************************)
(* Report pipelines: one request on bounded uploads                        *)
(***************************************************************************)
\* Most report files of a generated request.
MaxFiles == 2

\* First-page lines: date and payment id; neither; two Date lines before
\* the Payment line; the Payment line before the Date line.
Headers ==
    { <<"Date: 01/04/2026", "Payment #123">>,
      <<"Statement">>,
      <<"Date: 01/04/2026", "Date due 02/05", "Payment #123">>,
      <<"Payment #123", "Date: 01/04/2026">> }

TableHeader == <<"Invoice", "Order", "Description", "Date", "Gross", "Discount", "Amount">>

\* Two rows: one resolved at once, one resolved by the second try (11 characters).
BodyA ==
    [text   |-> <<"0012-00001 01/02/2026 widgets 1,000", "00071-00001 01/03/2026 5">>,
     tables |-> << << TableHeader,
                      <<"0012-00001", "A1", "widgets", "01/02/2026", "1,100", "100", "1,000">>,
                      <<"00071-00001", "A2", "", "01/03/2026", "5", None, "5">> >> >>]

\* One row that stays unknown, and lines and rows that are skipped.
BodyB ==
    [text   |-> <<"99-000001 01/02/2026 7", "Total 7", "x 01/02/2026 n/a">>,
     tables |-> << << TableHeader >>,
                   << TableHeader,
                      <<"99-000001", "B1", "bolts", "01/02/2026", "7", "0", "7">>,
                      <<"98-000001", "B2", "nuts", "01/02/2026", "3", "0", "n/a">>,
                      <<"97-000001", "B3">> >> >>]

\* Table rows with a blank invoice cell, an empty amount cell, a blank
\* amount cell and an empty invoice cell, and a good row after them.
BodyC ==
    [text   |-> <<"94-000001 01/02/2026 6">>,
     tables |-> << << TableHeader,
                      <<" ", "C1", "pads", "01/02/2026", "2", "0", "2">>,
                      <<"96-000001", "C2", "", "01/02/2026", "4", "0", None>>,
                      <<"95-000001", "C3", "", "01/02/2026", "4", "0", " ">>,
                      <<"", "C4", "", "01/02/2026", "3", "0", "3">>,
                      <<"94-000001", "C5", "", "01/02/2026", "6", "0", "6">> >> >>]

NoBody == [text |-> <<>>, tables |-> <<>>]

Upload(filename, raises, header, body) ==
    [filename |-> filename, raises |-> raises, header |-> header,
     text |-> body.text, tables |-> body.tables]

Uploads ==
    {Upload("a.pdf", FALSE, h, BodyA) : h \in Headers}
    \cup {Upload("b c.PDF", FALSE, h, BodyA) :
              h \in {<<"Date: 01/04/2026", "Payment #123">>, <<"Statement">>}}
    \cup {Upload("a.pdf", FALSE, <<"Date: 01/04/2026", "Payment #123">>, BodyB),
          Upload("b c.PDF", FALSE, <<"Date: 01/05/2026", "Payment #456">>, BodyC),
          Upload("b c.PDF", FALSE, <<"Date: 01/04/2026", "Payment #123">>, NoBody),
          Upload("a.pdf", TRUE, <<>>, NoBody),
          Upload("notes.txt", FALSE, <<"Statement">>, BodyA)}

\* Mapping tables: two stores; a store whose name is "Unknown".
StoreTableA ==
    [ncols |-> 3, rows |-> << <<"Store A", "x", "#0012">>, <<" Store B ", "y", "7">> >>]

StoreTableB ==
    [ncols |-> 2, rows |-> << <<"Unknown", "12">>, <<"Store B", "0007">> >>]

StoreFiles ==
    {[kind |-> "csv", df |-> StoreTableA], [kind |-> "xlsx", df |-> StoreTableB]}
    \cup {[kind |-> k, df |-> NoTable] : k \in {"none", "other", "unreadable"}}

\* A request on entry: at most MaxFiles uploads, below the limit of 30 of
\* costco line 32 / work_post line 45, and a store file.
PipeInit ==
    /\ pRoute \in {"work", "costco"}
    /\ pStore \in StoreFiles
    /\ pFiles \in SeqsUpTo(Uploads, MaxFiles)
    /\ pPc = "load"
    /\ pIdx = 0
    /\ pRows = NoFrame
    /\ store_mapping = NoDict
    /\ aggregated_data = <<>>
    /\ detailed_dataframes = <<>>
    /\ pResponse = [status |-> 0, body |-> ""]
    /\ pParsedTotal = 0
    /\ pSections = <<>>

Init == PipeInit /\ KeyIdle /\ DirIdle /\ SalesIdle /\ SlotIdle

Next ==
    \/ LoadStoreRejected
    \/ LoadStore
    \/ SkipFile
    \/ ExtractRaises
    \/ ExtractEmpty
    \/ Extract
    \/ Pass1
    \/ Pass2
    \/ StoreWork
    \/ StoreCostco
    \/ FinishWork
    \/ FinishCostco

Spec == Init /\ [][Next]_vars

(***************************************************************************)
(* Claims about the report pipelines                                       *)
(***************************************************************************)
\* The request has run to its response with a directory loaded.
PipeDone == pPc = "done" /\ pStore.kind \in {"csv", "xlsx"}

\* The sum of field total over the sheets from the i-th on.
RECURSIVE SheetTotals(_, _)
SheetTotals(sheets, i) ==
    IF i > Len(sheets) THEN 0 ELSE sheets[i].total + SheetTotals(sheets, i + 1)

\* The total over all store names of the store summary of the workbook: the
\* aggregated summary of the text pipeline, the sub-summaries of the sections
\* of the structured-table pipeline.
SummaryTotal ==
    IF pRoute = "work" THEN total_of(pResponse.summary)
    ELSE SheetTotals(pResponse.sheets, 1)

\* C5: whenever a workbook is produced, the amounts of its store summary,
\* summed over all store names ("Unknown" included), equal the sum of the
\* amounts of all rows parsed from the processed files: no amount is lost or
\* counted twice.
C5_SummaryConservesAmounts ==
    (PipeDone /\ pResponse.status = 200) => SummaryTotal = pParsedTotal

\* The result of the first line of the header that starts with the prefix
\* and from which extract finds a value.
RECURSIVE FirstExtracted(_, _, _, _)
FirstExtracted(lines, i, prefix, route) ==
    IF i > Len(lines) THEN [matched |-> FALSE, res |-> ""]
    ELSE LET m == IF route = "date" THEN extract_mm_dd(lines[i])
                  ELSE extract_payment_id(lines[i])
         IN  IF startswith(lines[i], prefix) /\ m.matched THEN m
             ELSE FirstExtracted(lines, i + 1, prefix, route)

HeaderDate(file) == FirstExtracted(file.header, 1, "Date", "date")
HeaderPayment(file) == FirstExtracted(file.header, 1, "Payment", "payment")

\* The rows of a file after both resolutions.
ResolvedRows(file) ==
    pass2(pass1(file_rows(pRoute, file), store_mapping), store_mapping)

\* The workbook has a sheet for the section with the detail rows and the
\* sub-summary of the file.
Delivered(name, file) ==
    /\ pResponse.status = 200
    /\ \E i \in 1..Len(pResponse.sheets) :
           /\ pResponse.sheets[i].title = safe_name(name)
           /\ pResponse.sheets[i].rows = ResolvedRows(file)
           /\ pResponse.sheets[i].summary = groupby_sum(name_amount(ResolvedRows(file)))

\* C9: in the structured-table pipeline a file whose first page yields both a
\* date and a payment id has the section name "{date} #{paymentId}"; any
\* other file is named by its uploaded filename, and the request completes
\* and delivers the file's detail rows and sub-summary under that name.
C9_SectionNaming ==
    (PipeDone /\ pRoute = "costco") =>
        \A k \in 1..Len(pSections) :
            LET file == pFiles[pSections[k].idx]
                name == pSections[k].name
                date == HeaderDate(file)
                pay  == HeaderPayment(file)
            IN  IF date.matched /\ pay.matched
                THEN name = date.res \o " #" \o pay.res
                ELSE name = file.filename /\ Delivered(name, file)

\* A file that contributes: a PDF whose extraction succeeds with some row.
Contributes(file) ==
    /\ endswith(lower(file.filename), ".pdf")
    /\ ~file.raises
    /\ file_rows(pRoute, file) # <<>>

\* The request's uploads without the files that fail or yield no rows.
Remaining == SelectSeq(pFiles, Contributes)

\* detailed_dataframes after the files from the i-th on, each processed alone.
RECURSIVE DetailedOver(_, _, _)
DetailedOver(files, i, detailed) ==
    IF i > Len(files) THEN detailed
    ELSE LET df   == ResolvedRows(files[i])
             name == IF pRoute = "work" THEN files[i].filename
                     ELSE section_name(scan_header(files[i].header, 1, <<>>),
                                       files[i].filename)
             val  == IF pRoute = "work" THEN df
                     ELSE <<df, groupby_sum(name_amount(df))>>
         IN  DetailedOver(files, i + 1, dict_put(detailed, name, val))

AggregatedOver(files) == [i \in 1..Len(files) |-> name_amount(ResolvedRows(files[i]))]

\* C10: a file whose extraction fails or yields no rows contributes nothing:
\* the loop visits every upload, and what it collected and the response are
\* those of the same request without the failing files, every other file
\* in order with the same rows, resolved keys and totals.
C10_FailuresAreSkipped ==
    PipeDone =>
        LET aggregated == AggregatedOver(Remaining)
            detailed   == DetailedOver(Remaining, 1, <<>>)
        IN  /\ pIdx = Len(pFiles) + 1
            /\ aggregated_data = aggregated
            /\ detailed_dataframes = detailed
            /\ pResponse = IF pRoute = "work" THEN finish_work(aggregated, detailed)
                           ELSE finish_costco(detailed)

\* A finished request in which a file whose extraction raises comes before a
\* file that contributes, and a workbook is delivered.
C10_Witness ==
    /\ PipeDone
    /\ pResponse.status = 200
    /\ \E i, j \in 1..Len(pFiles) :
           /\ i < j
           /\ pFiles[i].raises
           /\ Contributes(pFiles[j])

\* The rows extracted from the upload at hand, before any resolution.
ExtractedRows == file_rows(pRoute, CurrentFile)

\* The name the directory gives a key.
NameOf(key) == IF key \in DOMAIN store_mapping THEN store_mapping[key] ELSE "Unknown"

\* The offset of the second try for an invoice string.
SecondOffset(inv) == IF Len(inv) >= 11 THEN -7 ELSE -6

\* C11: after the two passes every row whose first resolution (n = -6) gave a
\* store name other than "Unknown" carries exactly that key and name; every
\* other row carries extract_key(invoice, D, n) and its directory name
\* ("Unknown" if absent), with n = -7 when the invoice has 11 characters or
\* more and n = -6 otherwise.
C11_TwoPasses ==
    pPc = "store" =>
        /\ Len(pRows) = Len(ExtractedRows)
        /\ \A i \in 1..Len(pRows) :
               LET inv  == ExtractedRows[i].invoiceNumber
                   key1 == extract_key(inv, store_mapping, -6)
                   key2 == extract_key(inv, store_mapping, SecondOffset(inv))
               IN  /\ pRows[i].invoiceNumber = inv
                   /\ pRows[i].amount = ExtractedRows[i].amount
                   /\ IF NameOf(key1) # "Unknown"
                      THEN pRows[i].storeKey = key1 /\ pRows[i].storeName = NameOf(key1)
                      ELSE pRows[i].storeKey = key2 /\ pRows[i].storeName = NameOf(key2)

\* Both passes are done on a file with a row settled by the first pass and a
\* row that only the second try, with n = -7, gives another key and a store.
C11_Witness ==
    /\ pPc = "store"
    /\ \E i, j \in 1..Len(pRows) :
           /\ NameOf(extract_key(pRows[i].invoiceNumber, store_mapping, -6)) # "Unknown"
           /\ NameOf(extract_key(pRows[j].invoiceNumber, store_mapping, -6)) = "Unknown"
           /\ Len(pRows[j].invoiceNumber) >= 11
           /\ pRows[j].storeKey # extract_key(pRows[j].invoiceNumber, store_mapping, -6)
           /\ pRows[j].storeName # "Unknown"

\* The detail table kept under an entry of detailed_dataframes.
TableOf(entry) == IF pRoute = "work" THEN entry.value ELSE entry.value[1]

\* The entry is the file's own: its resolved rows and, in the
\* structured-table pipeline, the sub-summary of those rows.
OwnEntry(entry, file) ==
    /\ TableOf(entry) = ResolvedRows(file)
    /\ pRoute = "costco" => entry.value[2] = groupby_sum(name_amount(ResolvedRows(file)))

\* C12: between files and at the end, every file stored so far has its own
\* detail table (and sub-summary) in detailed_dataframes under its section
\* name, one entry per stored file: none is dropped or replaced by another's.
C12_DetailTablesRetained ==
    (pPc \in {"file", "done"} /\ pStore.kind \in {"csv", "xlsx"}) =>
        /\ Len(detailed_dataframes) = Len(pSections)
        /\ \A k \in 1..Len(pSections) :
               \E e \in 1..Len(detailed_dataframes) :
                   /\ detailed_dataframes[e].name = pSections[k].name
                   /\ OwnEntry(detailed_dataframes[e], pFiles[pSections[k].idx])

\* The rows below the header of the tables from the i-th on, tables of fewer
\* than two rows left out.
RECURSIVE DataRows(_, _)
DataRows(tables, i) ==
    IF i > Len(tables) THEN <<>>
    ELSE (IF Len(tables[i]) < 2 THEN <<>> ELSE Tail(tables[i])) \o DataRows(tables, i + 1)

\* A cell that is None, empty or blank.
BlankCell(cell) == cell = None \/ strip(cell) = ""

\* A table row that yields a transaction: at least 7 cells, an invoice cell
\* that is not blank, an amount cell that is not blank and parses.
Qualifies(row) ==
    /\ Len(row) >= 7
    /\ ~BlankCell(row[1])
    /\ ~BlankCell(row[7])
    /\ float_of(strip(remove_chars(row[7], {","}))).ok

\* C13: the rows extracted from the tables of a file are those of the data
\* rows that have at least 7 cells, a non-blank invoice cell and a non-blank
\* amount cell that parses, in order, each with a non-empty invoiceNumber and
\* the amount of column 6; all other rows are discarded and do not stop the
\* rows after them from being read.
C13_TableRows ==
    (pRoute = "costco" /\ pPc = "pass1") =>
        LET kept == SelectSeq(DataRows(CurrentFile.tables, 1), Qualifies)
        IN  /\ Len(pRows) = Len(kept)
            /\ \A i \in 1..Len(pRows) :
                   /\ pRows[i].invoiceNumber # ""
                   /\ pRows[i].invoiceNumber = strip(kept[i][1])
                   /\ pRows[i].amount = float_of(strip(remove_chars(kept[i][7], {","}))).val

(***************************************************************************)
(* Lookup: extract_key applied to a directory built by get_store_names      *)
(***************************************************************************)
\* Most rows of a generated mapping table, most characters before the dash
\* of a generated invoice.
MaxCodes == 2
MaxDigits == 3

LookupCodes == {"7", "#0010", "70", "x9"}

LookupTables ==
    {[ncols |-> 2, rows |-> r] : r \in SeqsUpTo({<<"S", c>> : c \in LookupCodes}, MaxCodes)}

LookupInvoices ==
    {h \o "-00001" : h \in StringsUpTo({"0", "1", "7"}, MaxDigits)} \cup {None}

\* A mapping table to load and an invoice to resolve in the loaded directory.
LookupInit ==
    /\ \/ gSrc = "df" /\ gDf \in LookupTables
       \/ gSrc \in {"csv_error", "none"} /\ gDf = NoTable
    /\ gRes = <<>>
    /\ gPc = "call"
    /\ kInvoice \in LookupInvoices
    /\ kN \in {-6, -7}
    /\ kDir = <<>>
    /\ kRes = ""
    /\ kPc = "wait"

\* costco lines 141-143, 153-154 / work_post lines 121-123, 133-134:
\* extract_key(x, store_mapping, n) on the directory that was loaded.
Lookup ==
    /\ KeyFrame
    /\ gPc = "done"
    /\ kPc = "wait"
    /\ kDir' = gRes
    /\ kRes' = extract_key(kInvoice, gRes, kN)
    /\ kPc' = "done"
    /\ UNCHANGED <<kInvoice, kN>>

InitLookup == LookupInit /\ SalesIdle /\ SlotIdle /\ PipeIdle

NextLookup ==
    \/ Normalise
    \/ Lookup

SpecLookup == InitLookup /\ [][NextLookup]_vars

\* The invoice was resolved in the directory built from the table.
LookedUp == gPc = "done" /\ kPc = "done"

\* C14: in a directory D built by get_store_names every key has at least 4
\* characters, so for every identifier and offset extract_key returns a key
\* of D, the candidate without its leading zeros is never a key when the
\* candidate is not, and the result is the 4-padded candidate, the
\* right-stripped re-padded form or "0000".
C14_BuiltDirectory ==
    LookedUp =>
        /\ kDir = gRes
        /\ \A k \in DOMAIN kDir : Len(k) >= 4
        /\ kRes \in DOMAIN kDir
        /\ HasRun(kInvoice, kN) =>
               /\ Candidate(kInvoice, kN) \notin DOMAIN kDir =>
                      LeftStripped(kInvoice, kN) \notin DOMAIN kDir
               /\ kRes \in {Candidate(kInvoice, kN), RightStrippedPadded(kInvoice, kN), "0000"}
        /\ ~HasRun(kInvoice, kN) => kRes = "0000"

\* A lookup whose candidate has leading zeros and is not a key, and that
\* is settled by the right-stripped re-padded form.
C14_Witness ==
    /\ LookedUp
    /\ HasRun(kInvoice, kN)
    /\ Candidate(kInvoice, kN) \notin DOMAIN kDir
    /\ LeftStripped(kInvoice, kN) # Candidate(kInvoice, kN)
    /\ kRes = RightStrippedPadded(kInvoice, kN)
    /\ kRes # "0000"

====
